---- MODULE Spec2Model ----
(***************************************************************************)
(* Catalog synchronisation engine of CourseTracker.py: the SQLite store    *)
(* (class DB), the directory scanner (class Scanner) and the handlers of   *)
(* the UI that call them.                                                  *)
(*                                                                         *)
(* The variables hold the committed database (what conn.commit() has made  *)
(* durable), the directories on disk, the clock and the page shown.  The   *)
(* application is single-threaded: a handler runs to its end before the    *)
(* next one starts, so every action is a whole handler.  A handler can     *)
(* also end early: a store statement of upsert_item raises inside a scan   *)
(* (AddCourseFolderError), or the process is terminated inside record_open *)
(* (OpenItemInterrupted).  What such a run leaves in the database is what  *)
(* it had committed, which the store operators compute from the number of  *)
(* statements that ran.                                                    *)
(*                                                                         *)
(* The course page keeps the list of its rows (ordered_item_ids), the      *)
(* collapsed flags of its sections on screen and as remembered, and the    *)
(* hide-completed filter; its text filter stays empty.  Spec and           *)
(* SpecSections run the store and the scanner over the folders p1 and p2,  *)
(* SpecController and SpecNavigator run the section controls and the       *)
(* Open Next buttons over the folder p3 with two sections.  SpecScanner    *)
(* runs the scanner over the folder p4, which holds files that the ignore  *)
(* policy rejects and files whose os.stat fails.  SpecNatural sorts lists  *)
(* of names by natural_key.  Names and paths are strings, and the string   *)
(* functions of the code are computed character by character.              *)
(***************************************************************************)
EXTENDS Integers, Sequences, FiniteSets, TLC

\* ------------------------------------------------------------------ bounds
MaxTime == 2        \* now_ts() takes the values 1..MaxTime
MaxScans == 2       \* upsert_course calls in a behaviour
MaxOpen == 1        \* cap on open_count
MaxFsDiff == 1      \* differences between the disk and the intact trees
MaxNameLen == 2     \* characters of a name that is sorted by natural_key
NameCount == 3      \* names in a list that is sorted by natural_key

\* --------------------------------------------------------------- universe
NULL == 0           \* SQL NULL / Python None; ids and timestamps are >= 1

Paths == {"p1", "p2"}

\* The course folder of the specifications of the course page.
PagePaths == {"p3"}

\* The course folder of the specification of the ignore policy.
PolicyPaths == {"p4"}

Sections == {"S1", "S2"}

\* The relative paths that can exist below a course root, with the size and
\* mtime of the file, whether it is a regular file (S1/pipe is a FIFO), and
\* its position in the os.walk order (sections and siblings sorted by
\* natural_key, the files of a directory before its subdirectories).
FileInfo ==
  [ f \in {"S1/a.mp4", "S1/sub/b.mp4", "S2/c.mp4", "intro.mp4", "S1/a.SRT", "S1/pipe",
           "S1/Subtitles (extra)/e.mp4", " Samples /s.mp4"} |->
      CASE f = " Samples /s.mp4" ->
             [size |-> 10, mtime |-> 1, rank |-> 1, regular |-> TRUE]
        [] f = "S1/a.mp4" ->
             [size |-> 100, mtime |-> 1, rank |-> 2, regular |-> TRUE]
        [] f = "S1/a.SRT" ->
             [size |-> 20, mtime |-> 1, rank |-> 3, regular |-> TRUE]
        [] f = "S1/pipe" ->
             [size |-> 0, mtime |-> 1, rank |-> 4, regular |-> FALSE]
        [] f = "S1/sub/b.mp4" ->
             [size |-> 200, mtime |-> 1, rank |-> 5, regular |-> TRUE]
        [] f = "S1/Subtitles (extra)/e.mp4" ->
             [size |-> 30, mtime |-> 1, rank |-> 6, regular |-> TRUE]
        [] f = "S2/c.mp4" ->
             [size |-> 300, mtime |-> 1, rank |-> 7, regular |-> TRUE]
        [] OTHER ->
             [size |-> 40, mtime |-> 1, rank |-> 8, regular |-> TRUE] ]

Tree(p) ==
  CASE p = "p1" -> {"S1/a.mp4", "S1/sub/b.mp4"}
    [] p = "p2" -> {"S1/a.mp4"}
    [] p = "p3" -> {"S1/a.mp4", "S1/sub/b.mp4", "S2/c.mp4"}
    [] OTHER -> {"intro.mp4", "S1/a.mp4", "S1/a.SRT", "S1/pipe", "S1/sub/b.mp4",
                 "S1/Subtitles (extra)/e.mp4", " Samples /s.mp4"}

VARIABLES
  courses,        \* course id -> row of table courses
  items,          \* item id -> row of table items
  progress,       \* item id -> row of table progress
  section_state,  \* <<course id, section>> -> collapsed
  seq,            \* sqlite_sequence: [courses |-> n, items |-> n]
  fs,             \* path -> the directory on disk
  now,            \* the value now_ts() returned last
  course_id,      \* course shown by the course page, NULL on the library page
  ordered_item_ids,             \* CoursePage: ids of the rows, in display order
  section_view_collapsed,       \* CoursePage: section -> collapsed on screen
  section_persisted_collapsed,  \* CoursePage: section -> collapsed as remembered
  hide_completed,               \* CoursePage.hide_completed_var
  scanned,        \* paths whose last completed scan is still up to date
  last,           \* outcome of the most recent handler
  names,          \* a list of names handed to sorted(..., key=natural_key)
  sorted_names    \* what that call returned or raised

\* The fields of the course page that load_course and _rebuild_ui write.
page == <<ordered_item_ids, section_view_collapsed, section_persisted_collapsed>>

\* The argument and the result of a sort by natural_key.
sorting == <<names, sorted_names>>

vars == <<courses, items, progress, section_state, seq, fs, now, course_id,
          page, hide_completed, scanned, last, sorting>>

Restrict(f, S) == [x \in S |-> f[x]]

Empty == [x \in {} |-> NULL]

\* ---------------------------------------------------------------- strings
\* The characters of the names of the model, in code point order.  "^"
\* stands for the superscript two (U+00B2), which lies above the letters.
CodePoints == " ()./0123456789ABCDEFGHIJKLMNOPQRSTUVWXYZ_abcdefghijklmnopqrstuvwxyz^"

code_point(c) == CHOOSE j \in 1..Len(CodePoints) : SubSeq(CodePoints, j, j) = c

\* a < b of two str, and of two TEXT values under the BINARY collation
RECURSIVE str_lt(_, _)
str_lt(a, b) ==
  IF b = "" THEN FALSE
  ELSE IF a = "" THEN TRUE
  ELSE LET x == SubSeq(a, 1, 1)
           y == SubSeq(b, 1, 1)
       IN IF x = y THEN str_lt(SubSeq(a, 2, Len(a)), SubSeq(b, 2, Len(b)))
          ELSE code_point(x) < code_point(y)

\* str.lower()
lower_char(c) ==
  LET U == "ABCDEFGHIJKLMNOPQRSTUVWXYZ"
      L == "abcdefghijklmnopqrstuvwxyz"
      at == {j \in 1..26 : SubSeq(U, j, j) = c}
  IN IF at = {} THEN c ELSE LET j == CHOOSE x \in at : TRUE IN SubSeq(L, j, j)

RECURSIVE lower(_)
lower(s) ==
  IF s = "" THEN "" ELSE lower_char(SubSeq(s, 1, 1)) \o lower(SubSeq(s, 2, Len(s)))

\* str.lstrip(chars) and str.rstrip(chars)
RECURSIVE lstrip(_, _)
lstrip(s, chars) ==
  IF s # "" /\ SubSeq(s, 1, 1) \in chars THEN lstrip(SubSeq(s, 2, Len(s)), chars) ELSE s

RECURSIVE rstrip(_, _)
rstrip(s, chars) ==
  IF s # "" /\ SubSeq(s, Len(s), Len(s)) \in chars
    THEN rstrip(SubSeq(s, 1, Len(s) - 1), chars)
    ELSE s

\* norm(s): (s or "").strip().lower()
norm(s) == lower(rstrip(lstrip(s, {" "}), {" "}))

\* The positions of the character c in s.
find_all(s, c) == {j \in 1..Len(s) : SubSeq(s, j, j) = c}

\* The largest element of a non-empty set of integers.
max_of(S) == CHOOSE x \in S : \A y \in S : y <= x

\* ---------------------------------------------------------- ignore policy
IGNORED_EXTENSIONS ==
  {".vtt", ".srt", ".ass", ".ssa", ".sub", ".idx", ".nfo", ".sfv", ".url", ".ds_store",
   ".tmp"}

IGNORED_FOLDER_EXACT == {"websites you may like", "sample files", "samples", "__macosx"}

IGNORED_FOLDER_CONTAINS == {"website", "websites", "subtitle", "subtitles"}

\* frag in s
contains(s, frag) ==
  \E j \in 1..(Len(s) - Len(frag) + 1) : SubSeq(s, j, j + Len(frag) - 1) = frag

folder_is_ignored(folder_name) ==
  LET n == norm(folder_name)
  IN n \in IGNORED_FOLDER_EXACT \/ \E frag \in IGNORED_FOLDER_CONTAINS : contains(n, frag)

\* os.path.splitext(fn)[1]: from the last dot on, empty when fn has no dot
\* or has only dots before its last dot.
splitext_ext(fn) ==
  LET at == find_all(fn, ".") IN
  IF at = {} THEN ""
  ELSE LET j == max_of(at)
       IN IF \A k \in 1..(j - 1) : SubSeq(fn, k, k) = "." THEN "" ELSE SubSeq(fn, j, Len(fn))

\* The folders and the file name that os.path.relpath joins to a rel_path.
RECURSIVE split(_, _)
split(s, sep) ==
  LET at == find_all(s, sep) IN
  IF at = {} THEN <<s>>
  ELSE LET j == CHOOSE x \in at : \A y \in at : x <= y
       IN <<SubSeq(s, 1, j - 1)>> \o split(SubSeq(s, j + 1, Len(s)), sep)

Components == [f \in DOMAIN FileInfo |-> split(f, "/")]

\* The files that the filters of scan_course let through: below a top-level
\* folder (top holds directories only), that folder not ignored, no ignored
\* folder on the way down (pruned from dirnames), the extension not ignored.
PolicyKeeps ==
  {f \in DOMAIN FileInfo :
     LET c == Components[f] IN
     /\ Len(c) > 1
     /\ \A j \in 1..(Len(c) - 1) : ~folder_is_ignored(c[j])
     /\ lower(splitext_ext(c[Len(c)])) \notin IGNORED_EXTENSIONS}

\* The files of the nested folder S1/sub.
InSub == {f \in DOMAIN FileInfo : Len(Components[f]) > 2 /\ Components[f][2] = "sub"}

\* ------------------------------------------------------------ natural_key
\* \d of re: a decimal digit.
is_decimal(c) == c \in {"0", "1", "2", "3", "4", "5", "6", "7", "8", "9"}

\* str.isdigit(): the string is not empty and each character is a decimal
\* digit or another digit character, such as the superscript two.
isdigit(x) ==
  /\ x # ""
  /\ \A j \in 1..Len(x) : is_decimal(SubSeq(x, j, j)) \/ SubSeq(x, j, j) = "^"

\* The length of the longest prefix of s whose characters are decimal
\* digits (dec = TRUE) or are not (dec = FALSE).
RECURSIVE run_length(_, _)
run_length(s, dec) ==
  IF s = "" \/ is_decimal(SubSeq(s, 1, 1)) # dec THEN 0
  ELSE 1 + run_length(SubSeq(s, 2, Len(s)), dec)

\* re.split(r"(\d+)", s): texts and runs of decimal digits in turn, the
\* first and the last element a text that can be empty.
RECURSIVE re_split(_)
re_split(s) ==
  LET n == run_length(s, FALSE)
      rest == SubSeq(s, n + 1, Len(s))
      m == run_length(rest, TRUE)
  IN IF rest = "" THEN <<SubSeq(s, 1, n)>>
     ELSE <<SubSeq(s, 1, n), SubSeq(rest, 1, m)>> \o re_split(SubSeq(rest, m + 1, Len(rest)))

\* int(x) of a string of decimal digits
RECURSIVE int_of(_)
int_of(x) ==
  IF x = "" THEN 0
  ELSE 10 * int_of(SubSeq(x, 1, Len(x) - 1))
         + (code_point(SubSeq(x, Len(x), Len(x))) - code_point("0"))

\* int(x) raises ValueError on a digit character that is not decimal.
int_raises(x) == \E j \in 1..Len(x) : ~is_decimal(SubSeq(x, j, j))

\* int(x) if x.isdigit() else x.lower(): an element of a key
key_element(x) ==
  IF isdigit(x)
    THEN [t |-> "int", n |-> IF int_raises(x) THEN 0 ELSE int_of(x), s |-> ""]
    ELSE [t |-> "str", n |-> 0, s |-> lower(x)]

\* natural_key(s): the key, or the exception of the call
natural_key(s) ==
  LET parts == re_split(s) IN
  [raised |-> IF \E j \in DOMAIN parts : isdigit(parts[j]) /\ int_raises(parts[j])
                THEN "ValueError" ELSE "",
   key |-> [j \in DOMAIN parts |-> key_element(parts[j])]]

\* k1 < k2, k1 == k2 or k1 > k2 of two lists: the first pair of unequal
\* elements decides, and raises TypeError between an int and a str.
RECURSIVE compare_keys(_, _)
compare_keys(k1, k2) ==
  IF k1 = <<>> /\ k2 = <<>> THEN "eq"
  ELSE IF k1 = <<>> THEN "lt"
  ELSE IF k2 = <<>> THEN "gt"
  ELSE LET a == Head(k1)
           b == Head(k2)
       IN IF a.t # b.t THEN "TypeError"
          ELSE IF a = b THEN compare_keys(Tail(k1), Tail(k2))
          ELSE IF a.t = "int" THEN (IF a.n < b.n THEN "lt" ELSE "gt")
          ELSE IF str_lt(a.s, b.s) THEN "lt" ELSE "gt"

\* The stable insertion of the name x into the list q sorted by natural_key.
RECURSIVE insert_sorted(_, _)
insert_sorted(q, x) ==
  IF q = <<>> THEN <<x>>
  ELSE IF compare_keys(natural_key(x).key, natural_key(Head(q)).key) = "lt"
    THEN <<x>> \o q
    ELSE <<Head(q)>> \o insert_sorted(Tail(q), x)

RECURSIVE sort_stable(_)
sort_stable(q) ==
  IF q = <<>> THEN <<>> ELSE insert_sorted(sort_stable(SubSeq(q, 1, Len(q) - 1)), q[Len(q)])

\* sorted(q, key=natural_key): the sorted list, or the exception raised by
\* a call of natural_key or by a comparison of two keys.
sorted_by_natural_key(q) ==
  IF \E j \in DOMAIN q : natural_key(q[j]).raised # ""
    THEN [raised |-> "ValueError", list |-> <<>>]
  ELSE IF \E j, k \in DOMAIN q :
            compare_keys(natural_key(q[j]).key, natural_key(q[k]).key) = "TypeError"
    THEN [raised |-> "TypeError", list |-> <<>>]
  ELSE [raised |-> "", list |-> sort_stable(q)]

\* The rows of courses, items and progress.
Rows == [courses |-> courses, items |-> items, progress |-> progress]

\* ------------------------------------------------------------- filesystem
\* os.path.isdir that accepts every path.
isdir_any(p) == TRUE

isdir(p) == fs[p].kind = "dir"

\* os.listdir(course_path) raises
listdir_fails(p) == ~fs[p].listable

\* os.path.isfile(abs_path): False for what is not a regular file and for
\* a file whose os.stat raises.
isfile(p, f) == FileInfo[f].regular /\ f \notin fs[p].unstat

\* The files that reach keep_rel and upsert_item.  os.walk is called
\* without onerror, so a directory it cannot list is skipped silently with
\* everything below it.
Walked(p) ==
  {f \in fs[p].files : f \in PolicyKeeps /\ ~(f \in InSub /\ fs[p].locked) /\ isfile(p, f)}

\* What scan_course passes to upsert_item for the file f: the section is
\* the top-level folder, size and mtime are 0 where getsize and getmtime
\* raise.
entry(p, f) ==
  [rel_path |-> f, section |-> Components[f][1],
   size_bytes |-> IF f \in fs[p].unstat_late THEN 0 ELSE FileInfo[f].size,
   mtime |-> IF f \in fs[p].unstat_late THEN 0 ELSE FileInfo[f].mtime]

RECURSIVE SortByRank(_)
SortByRank(S) ==
  IF S = {} THEN <<>>
  ELSE LET f == CHOOSE x \in S : \A y \in S : FileInfo[x].rank <= FileInfo[y].rank
       IN <<f>> \o SortByRank(S \ {f})

\* The files that scan_course walks in the course folder p, in the order of
\* os.walk.
RECURSIVE entries(_, _)
entries(p, q) == IF q = <<>> THEN <<>> ELSE <<entry(p, Head(q))>> \o entries(p, Tail(q))

Scanned(p) == entries(p, SortByRank(Walked(p)))

\* The course folder as it is created.
IntactDir(p) ==
  [kind |-> "dir", listable |-> TRUE, locked |-> FALSE, files |-> Tree(p),
   unstat |-> {}, unstat_late |-> {}]

\* How far the directory of p is from its intact tree.
FsDiff(d, p) ==
  IF d.kind # "dir" THEN 1
  ELSE Cardinality(Tree(p) \ d.files) + (IF d.listable THEN 0 ELSE 1)
         + (IF d.locked THEN 1 ELSE 0)
         + Cardinality(d.unstat) + Cardinality(d.unstat_late)

RECURSIVE FsDiffSum(_, _)
FsDiffSum(f, S) ==
  IF S = {} THEN 0
  ELSE LET p == CHOOSE x \in S : TRUE IN FsDiff(f[p], p) + FsDiffSum(f, S \ {p})

\* ------------------------------------------------------------------ store
\* os.path.basename(course_path.rstrip("\\/")) or course_path
basename(p) ==
  LET s == rstrip(p, {"\\", "/"})
      at == find_all(s, "/")
      b == IF at = {} THEN s ELSE SubSeq(s, max_of(at) + 1, Len(s))
  IN IF b = "" THEN p ELSE b

\* INSERT OR REPLACE INTO courses: the row in conflict is deleted and a new
\* row inserted.
upsert_course_replace(cs, n, p, ts) ==
  Restrict(cs, {c \in DOMAIN cs : cs[c].path # p})
    @@ ((n + 1) :> [path |-> p, name |-> basename(p), created_at |-> ts,
                    last_opened_item_id |-> NULL, last_opened_at |-> NULL])

\* INSERT INTO courses ... ON CONFLICT(path) DO UPDATE SET name; n is the
\* AUTOINCREMENT sequence of the table.
upsert_course(cs, n, p, ts) ==
  LET ex == {c \in DOMAIN cs : cs[c].path = p} IN
  IF ex = {}
    THEN cs @@ ((n + 1) :> [path |-> p, name |-> basename(p), created_at |-> ts,
                            last_opened_item_id |-> NULL, last_opened_at |-> NULL])
    ELSE [c \in DOMAIN cs |-> IF c \in ex THEN [cs[c] EXCEPT !.name = basename(p)]
                                          ELSE cs[c]]

get_course_id(cs, p) == CHOOSE c \in DOMAIN cs : cs[c].path = p

\* The row that upsert_item writes for the scanned file e.
ItemRow(cid, e) ==
  [course_id |-> cid, rel_path |-> e.rel_path, section |-> e.section,
   size_bytes |-> e.size_bytes, mtime |-> e.mtime, ignored |-> 0]

DefaultProgress ==
  [completed |-> 0, completed_at |-> NULL, last_opened_at |-> NULL, open_count |-> 0]

\* FOREIGN KEY ... ON DELETE CASCADE of items, progress and section_state
cascade_items(its, cs) == Restrict(its, {i \in DOMAIN its : its[i].course_id \in DOMAIN cs})
cascade_progress(pr, its) == Restrict(pr, DOMAIN pr \cap DOMAIN its)

\* section_state without the foreign key to courses.
cascade_sections_off(ss, cs) == ss

cascade_sections(ss, cs) == Restrict(ss, {k \in DOMAIN ss : k[1] \in DOMAIN cs})

\* INSERT OR REPLACE INTO items: the row in conflict is deleted (with its
\* progress row) and a new row inserted.
insert_item_replace(its, n, cid, e) ==
  Restrict(its, {i \in DOMAIN its :
                   ~(its[i].course_id = cid /\ its[i].rel_path = e.rel_path)})
    @@ ((n + 1) :> ItemRow(cid, e))

\* INSERT INTO items ... ON CONFLICT(course_id, rel_path) DO UPDATE
insert_item(its, n, cid, e) ==
  LET ex == {i \in DOMAIN its : its[i].course_id = cid /\ its[i].rel_path = e.rel_path} IN
  IF ex = {}
    THEN its @@ ((n + 1) :> ItemRow(cid, e))
    ELSE [i \in DOMAIN its |-> IF i \in ex THEN ItemRow(cid, e) ELSE its[i]]

item_id_of(its, cid, f) ==
  CHOOSE i \in DOMAIN its : its[i].course_id = cid /\ its[i].rel_path = f

\* INSERT OR REPLACE INTO progress(item_id): an existing row is reset.
insert_progress_replace(pr, i) ==
  [j \in DOMAIN pr \cup {i} |-> IF j = i THEN DefaultProgress ELSE pr[j]]

\* INSERT INTO progress(item_id) ... ON CONFLICT(item_id) DO NOTHING
insert_progress(pr, i) ==
  IF i \in DOMAIN pr THEN pr ELSE pr @@ (i :> DefaultProgress)

\* DB.upsert_item on the tables st = [items, progress, n], of which k >= 1
\* statements run: INSERT items; commit (k = 1), then SELECT id; INSERT
\* progress; commit (k >= 2).  The sequence advances on a conflict too.
upsert_item(st, cid, e, k) ==
  LET its == insert_item(st.items, st.n, cid, e)
      pr == cascade_progress(st.progress, its)
  IN [items |-> its, n |-> st.n + 1,
      progress |-> IF k = 1 THEN pr
                   ELSE insert_progress(pr, item_id_of(its, cid, e.rel_path))]

delete_missing_items(its, cid, keep_rel_paths) ==
  Restrict(its, {i \in DOMAIN its :
                   ~(its[i].course_id = cid /\ its[i].rel_path \notin keep_rel_paths)})

\* The loop of scan_course over the walked files todo, of which k store
\* statements run (two per file).
RECURSIVE upsert_files(_, _, _, _)
upsert_files(st, cid, todo, k) ==
  IF k = 0 \/ todo = <<>> THEN st
  ELSE upsert_files(upsert_item(st, cid, Head(todo), k), cid, Tail(todo),
                    IF k = 1 THEN 0 ELSE k - 2)

\* scan_course after upsert_course, to its end: the loop, then
\* delete_missing_items(course_id, keep_rel).
scan_items(st, cid, todo) ==
  LET up == upsert_files(st, cid, todo, 2 * Len(todo))
      its == delete_missing_items(up.items, cid, {todo[j].rel_path : j \in 1..Len(todo)})
  IN [items |-> its, n |-> up.n, progress |-> cascade_progress(up.progress, its)]

\* DB.record_open with a commit after each of its statements.
record_open_autocommit(cs, pr, c, i, ts, k) ==
  [progress |-> IF i \in DOMAIN pr
                  THEN [pr EXCEPT ![i].last_opened_at = ts, ![i].open_count = @ + 1]
                  ELSE pr,
   courses |-> IF k = 2
                 THEN [cs EXCEPT ![c].last_opened_item_id = i, ![c].last_opened_at = ts]
                 ELSE cs]

\* DB.record_open, of which k statements run before the process ends:
\* UPDATE progress; UPDATE courses; and one commit after the second.
record_open(cs, pr, c, i, ts, k) ==
  IF k < 2 THEN [progress |-> pr, courses |-> cs]
  ELSE [progress |-> IF i \in DOMAIN pr
                       THEN [pr EXCEPT ![i].last_opened_at = ts, ![i].open_count = @ + 1]
                       ELSE pr,
        courses |-> [cs EXCEPT ![c].last_opened_item_id = i, ![c].last_opened_at = ts]]

\* DB.set_completed that writes completed_at only when completing.
set_completed_keep_ts(pr, i, completed, ts) ==
  IF i \in DOMAIN pr
    THEN [pr EXCEPT ![i].completed = IF completed THEN 1 ELSE 0,
                    ![i].completed_at = IF completed THEN ts ELSE @]
    ELSE pr

\* DB.set_completed
set_completed(pr, i, completed, ts) ==
  IF i \in DOMAIN pr
    THEN [pr EXCEPT ![i].completed = IF completed THEN 1 ELSE 0,
                    ![i].completed_at = IF completed THEN ts ELSE NULL]
    ELSE pr

\* DB.get_global_last_opened: the rows the query can return.  ORDER BY
\* p.last_opened_at DESC LIMIT 1 leaves the choice among equal timestamps
\* open; the empty set is the result None.
get_global_last_opened ==
  LET cand == {i \in DOMAIN progress \cap DOMAIN items :
                 /\ progress[i].last_opened_at # NULL
                 /\ items[i].ignored = 0
                 /\ items[i].course_id \in DOMAIN courses}
  IN {[course_id |-> items[i].course_id, item_id |-> i] :
        i \in {j \in cand : \A m \in cand :
                 progress[m].last_opened_at <= progress[j].last_opened_at}}

\* DB.get_section_collapsed_map
get_section_collapsed_map(ss, c) ==
  [s \in {k[2] : k \in {x \in DOMAIN ss : x[1] = c}} |-> ss[<<c, s>>]]

\* DB.set_section_collapsed
set_section_collapsed(ss, c, s, collapsed) ==
  [k \in DOMAIN ss \cup {<<c, s>>} |-> IF k = <<c, s>> THEN collapsed ELSE ss[k]]

\* DB.clear_section_state
clear_section_state(ss, c) == Restrict(ss, {k \in DOMAIN ss : k[1] # c})

\* The rows of items LEFT JOIN progress that get_progress_for_course would
\* aggregate without the condition i.course_id = ?.
progress_rows_any(its, c) == {i \in DOMAIN its : its[i].ignored = 0}

\* FROM items i LEFT JOIN progress p ... WHERE i.course_id = ? AND
\* i.ignored = 0: one row for each such item.
progress_rows(its, c) == {i \in DOMAIN its : its[i].course_id = c /\ its[i].ignored = 0}

\* The SUM of a column of get_progress_for_course over the rows S;
\* p.completed is NULL on a row without a progress row.
RECURSIVE sum_rows(_, _, _, _)
sum_rows(its, pr, S, col) ==
  IF S = {} THEN 0
  ELSE LET i == CHOOSE x \in S : TRUE
           done == i \in DOMAIN pr /\ pr[i].completed = 1
           v == CASE col = "completed_count" -> IF done THEN 1 ELSE 0
                  [] col = "completed_bytes" -> IF done THEN its[i].size_bytes ELSE 0
                  [] OTHER -> its[i].size_bytes
       IN v + sum_rows(its, pr, S \ {i}, col)

\* DB.get_progress_for_course
get_progress_for_course(its, pr, c) ==
  LET S == progress_rows(its, c)
  IN <<sum_rows(its, pr, S, "completed_count"), Cardinality(S),
       sum_rows(its, pr, S, "completed_bytes"), sum_rows(its, pr, S, "total_bytes")>>

\* ORDER BY created_at in place of the COALESCE.
order_key_created(r) == r.created_at

\* COALESCE(last_opened_at, created_at)
order_key(r) == IF r.last_opened_at # NULL THEN r.last_opened_at ELSE r.created_at

\* ORDER BY COALESCE(last_opened_at, created_at) DESC, name ASC allows row a
\* before row b.
precedes(a, b) ==
  \/ order_key(a) > order_key(b)
  \/ order_key(a) = order_key(b) /\ ~str_lt(b.name, a.name)

\* DB.list_courses: the lists of course ids the query can return; the order
\* of rows with equal key and name is open.
list_courses(cs) ==
  {q \in [1..Cardinality(DOMAIN cs) -> DOMAIN cs] :
     /\ \A c \in DOMAIN cs : \E j \in DOMAIN q : q[j] = c
     /\ \A j, k \in DOMAIN q : j < k => precedes(cs[q[j]], cs[q[k]])}

\* ------------------------------------------------------------ course page
\* dict.get(k, d)
dict_get(m, k, d) == IF k \in DOMAIN m THEN m[k] ELSE d

\* m with m[k] = v for every k of the set ks
dict_set(m, ks, v) == [k \in DOMAIN m \cup ks |-> IF k \in ks THEN v ELSE m[k]]

Range(q) == {q[j] : j \in DOMAIN q}

\* int(it["completed"] or 0) == 1 on a row of get_course_items (LEFT JOIN)
is_completed(pr, i) == i \in DOMAIN pr /\ pr[i].completed = 1

\* sorted(filtered, key=(natural_key(section), natural_key(rel_path)))
RECURSIVE SortItems(_, _)
SortItems(its, S) ==
  IF S = {} THEN <<>>
  ELSE LET i == CHOOSE x \in S : \A y \in S :
                  FileInfo[its[x].rel_path].rank <= FileInfo[its[y].rel_path].rank
       IN <<i>> \o SortItems(its, S \ {i})

\* CoursePage._rebuild_ui for course c: the rows left by the hide-completed
\* filter in display order (the text filter is empty), and the defaults of
\* the sections that have rows.
rebuild_ui(its, pr, c, hide, view, pers) ==
  LET ord == SortItems(its, {i \in DOMAIN its :
                               /\ its[i].course_id = c /\ its[i].ignored = 0
                               /\ ~(hide /\ is_completed(pr, i))})
      secs == {its[i].section : i \in Range(ord)}
      p2 == [s \in DOMAIN pers \cup secs |-> dict_get(pers, s, FALSE)]
      v2 == [s \in DOMAIN view \cup secs |-> dict_get(view, s, p2[s])]
  IN [ordered_item_ids |-> ord, view |-> v2, persisted |-> p2]

\* CoursePage.load_course for a course of the library
load_course(ss, its, pr, c, hide) ==
  LET m == get_section_collapsed_map(ss, c) IN rebuild_ui(its, pr, c, hide, m, m)

\* CoursePage._collapse_all_sections_temporary that remembers the sections
\* it collapsed.
collapse_all_remembered(view, pers, secs) ==
  [view |-> dict_set(view, secs, TRUE), persisted |-> dict_set(pers, secs, TRUE)]

\* CoursePage._collapse_all_sections_temporary over the sections secs that
\* have a container
collapse_all(view, pers, secs) ==
  [view |-> dict_set(view, secs, TRUE), persisted |-> pers]

\* _toggle_section that flips the remembered value.
toggled_persisted(view, pers, s) == ~dict_get(pers, s, FALSE)

\* CoursePage._toggle_section: new_state
toggled(view, pers, s) == ~dict_get(view, s, dict_get(pers, s, FALSE))

\* _open_next_from that starts at the top when the item is not listed.
next_id_from_top(ord, x) ==
  IF x \notin Range(ord) THEN (IF ord = <<>> THEN NULL ELSE ord[1])
  ELSE LET idx == CHOOSE j \in DOMAIN ord : ord[j] = x
       IN IF idx + 1 > Len(ord) THEN NULL ELSE ord[idx + 1]

\* CoursePage._open_next_from: the id it passes to _open_item, NULL where it
\* returns before (ValueError of index, or idx + 1 >= len).
next_id(ord, x) ==
  IF x \notin Range(ord) THEN NULL
  ELSE LET idx == CHOOSE j \in DOMAIN ord : ord[j] = x
       IN IF idx + 1 > Len(ord) THEN NULL ELSE ord[idx + 1]

\* ------------------------------------------------------------------- Init
InitCatalog ==
  /\ courses = Empty
  /\ items = Empty
  /\ progress = Empty
  /\ section_state = Empty
  /\ seq = [courses |-> 0, items |-> 0]
  /\ fs = [p \in Paths \cup PagePaths \cup PolicyPaths |-> IntactDir(p)]
  /\ now = 1
  /\ course_id = NULL
  /\ ordered_item_ids = <<>>
  /\ section_view_collapsed = Empty
  /\ section_persisted_collapsed = Empty
  /\ hide_completed = FALSE
  /\ scanned = {}
  /\ last = "none"

\* No sort is under way.
NotSorted == [raised |-> "", list |-> <<>>]

Init ==
  /\ InitCatalog
  /\ names = <<>>
  /\ sorted_names = NotSorted

\* The values a call of now_ts() can return: the clock does not run
\* backwards, and two calls can fall into the same second.
Clock == {t \in {now, now + 1} : t <= MaxTime}

\* The values of a second call of now_ts() in a handler whose first call
\* returned ts.
ClockAfter(ts) == {t \in {ts, ts + 1} : t <= MaxTime}

\* The page fields as a record, and their assignment.
CurrentPage ==
  [ordered_item_ids |-> ordered_item_ids, view |-> section_view_collapsed,
   persisted |-> section_persisted_collapsed]

SetPage(pg) ==
  /\ ordered_item_ids' = pg.ordered_item_ids
  /\ section_view_collapsed' = pg.view
  /\ section_persisted_collapsed' = pg.persisted

\* The page fields are dead while the library page is shown: load_course
\* and _rebuild_ui overwrite them before any handler reads them again.
ClearPage ==
  /\ ordered_item_ids' = <<>>
  /\ section_view_collapsed' = Empty
  /\ section_persisted_collapsed' = Empty

\* ---------------------------------------------------------------- scanner
\* Scanner.scan_course(p) to its return or to the exception it raises
\* itself.
ScanCourse(p) ==
  /\ seq.courses < MaxScans
  /\ IF ~isdir(p)
       THEN \* raise RuntimeError("Selected course path is not a folder.")
            /\ UNCHANGED <<courses, items, progress, seq, now, scanned>>
            /\ last' = "not_a_folder"
       ELSE /\ \E ts \in Clock :
                 /\ now' = ts
                 /\ courses' = upsert_course(courses, seq.courses, p, ts)
            /\ IF listdir_fails(p)
                 THEN \* except Exception as e: raise RuntimeError(str(e))
                      /\ seq' = [seq EXCEPT !.courses = @ + 1]
                      /\ UNCHANGED <<items, progress, scanned>>
                      /\ last' = "list_error"
                 ELSE LET cid == get_course_id(courses', p)
                          st == scan_items([items |-> items, progress |-> progress,
                                            n |-> seq.items],
                                           cid, Scanned(p))
                      IN /\ items' = st.items
                         /\ progress' = st.progress
                         /\ seq' = [courses |-> seq.courses + 1, items |-> st.n]
                         /\ scanned' = scanned \cup {p}
                         /\ last' = IF p \in scanned THEN "scan_ok_again" ELSE "scan_ok"
  /\ UNCHANGED <<section_state, fs, sorting>>

\* scan_course in which the k-th store statement of the loop raises
\* (sqlite3.Error): the exception leaves scan_course; the k - 1 statements
\* before it are committed.
ScanCourseError(p, k) ==
  /\ seq.courses < MaxScans
  /\ isdir(p)
  /\ ~listdir_fails(p)
  /\ k \in 1..(2 * Cardinality(Walked(p)))
  /\ \E ts \in Clock :
       /\ now' = ts
       /\ courses' = upsert_course(courses, seq.courses, p, ts)
  /\ LET st == upsert_files([items |-> items, progress |-> progress, n |-> seq.items],
                            get_course_id(courses', p), Scanned(p), k - 1)
     IN /\ items' = st.items
        /\ progress' = st.progress
        /\ seq' = [courses |-> seq.courses + 1, items |-> st.n]
  /\ last' = "scan_error"
  /\ UNCHANGED <<section_state, fs, sorting, scanned>>

\* App.add_course_folder: Scanner.scan_course(path), then open_course; an
\* exception of the scan is reported and the page stays.
AddCourseFolder(p) ==
  /\ ScanCourse(p)
  /\ IF last' \in {"scan_ok", "scan_ok_again"}
       THEN LET cid == get_course_id(courses', p)
            IN /\ course_id' = cid
               /\ SetPage(load_course(section_state, items', progress', cid, hide_completed))
       ELSE UNCHANGED <<course_id, page>>
  /\ UNCHANGED hide_completed

\* CoursePage._rescan: Scanner.scan_course(self.course_path), then
\* _rebuild_ui; an exception of the scan is reported and the page stays.
Rescan ==
  /\ course_id # NULL
  /\ ScanCourse(courses[course_id].path)
  /\ IF last' \in {"scan_ok", "scan_ok_again"}
       THEN SetPage(rebuild_ui(items', progress', course_id, hide_completed,
                               section_view_collapsed, section_persisted_collapsed))
       ELSE UNCHANGED page
  /\ UNCHANGED <<course_id, hide_completed>>

\* add_course_folder or _rescan whose scan raises in the loop.
AddCourseFolderError(p, k) ==
  /\ ScanCourseError(p, k)
  /\ UNCHANGED <<course_id, page, hide_completed>>

\* ------------------------------------------------------------ course page
\* App.open_course -> CoursePage.load_course
OpenCourse(c) ==
  /\ c \in DOMAIN courses
  /\ course_id # c
  /\ course_id' = c
  /\ SetPage(load_course(section_state, items, progress, c, hide_completed))
  /\ last' = "none"
  /\ UNCHANGED <<courses, items, progress, section_state, seq, fs, sorting, now,
                 hide_completed, scanned>>

\* App.show_library
ShowLibrary ==
  /\ course_id # NULL
  /\ course_id' = NULL
  /\ ClearPage
  /\ last' = "none"
  /\ UNCHANGED <<courses, items, progress, section_state, seq, fs, sorting, now,
                 hide_completed, scanned>>

\* The sections that have a container (section_containers.keys()).
section_containers == {items[i].section : i \in Range(ordered_item_ids)}

\* The rows on screen: those of the list whose section is not collapsed.
Shown ==
  {i \in Range(ordered_item_ids) :
     ~dict_get(section_view_collapsed, items[i].section, FALSE)}

\* CoursePage._toggle_done -> DB.set_completed: the checkbox passes its new
\* value, the negation of the value the row was built with.
SetCompleted(i, completed) ==
  /\ course_id # NULL
  /\ i \in Shown
  /\ completed = ~is_completed(progress, i)
  /\ \E ts \in (IF completed THEN Clock ELSE {now}) :
       /\ now' = ts
       /\ progress' = set_completed(progress, i, completed, ts)
  /\ last' = IF completed THEN "completed" ELSE "uncompleted"
  /\ UNCHANGED <<courses, items, section_state, seq, fs, sorting, course_id, page,
                 hide_completed, scanned>>

\* safe_open_file without its try: the exception of the launcher leaves it.
safe_open_file_uncaught(launches) == IF launches THEN "returned" ELSE "raised"

\* safe_open_file(path), launches telling whether the launcher starts: an
\* Exception of os.startfile or subprocess.call is caught and shown in a
\* message box.
safe_open_file(launches) == "returned"

\* CoursePage._open_item: safe_open_file, then DB.record_open
OpenItemWith(i, launches) ==
  /\ course_id # NULL
  /\ i \in Shown
  /\ i \in DOMAIN progress => progress[i].open_count < MaxOpen
  /\ IF safe_open_file(launches) = "raised"
       THEN /\ UNCHANGED <<courses, progress, now>>
            /\ last' = "open_raised"
       ELSE /\ \E ts \in Clock :
                 LET r == record_open(courses, progress, course_id, i, ts, 2)
                 IN /\ now' = ts
                    /\ courses' = r.courses
                    /\ progress' = r.progress
            /\ last' = IF launches THEN "opened" ELSE "opened_launch_failed"
  /\ UNCHANGED <<items, section_state, seq, fs, sorting, course_id, page, hide_completed,
                 scanned>>

\* The Open button of a row, the file opening in its application
OpenItem(i) == OpenItemWith(i, TRUE)

\* The Open button of a row, the launcher raising (no application, no file)
OpenItemLaunchFails(i) == OpenItemWith(i, FALSE)

\* The process is terminated inside record_open, between its two UPDATEs,
\* and started again: App.__init__ shows the library page.
OpenItemInterrupted(i) ==
  /\ course_id # NULL
  /\ i \in Shown
  /\ i \in DOMAIN progress => progress[i].open_count < MaxOpen
  /\ \E ts \in Clock :
       LET r == record_open(courses, progress, course_id, i, ts, 1)
       IN /\ now' = ts
          /\ courses' = r.courses
          /\ progress' = r.progress
  /\ course_id' = NULL
  /\ ClearPage
  /\ hide_completed' = FALSE
  /\ last' = "open_interrupted"
  /\ UNCHANGED <<items, section_state, seq, fs, sorting, scanned>>

\* The hide-completed checkbox: command=self._rebuild_ui
ToggleHideCompleted ==
  /\ course_id # NULL
  /\ hide_completed' = ~hide_completed
  /\ SetPage(rebuild_ui(items, progress, course_id, hide_completed',
                        section_view_collapsed, section_persisted_collapsed))
  /\ last' = "none"
  /\ UNCHANGED <<courses, items, progress, section_state, seq, fs, sorting, now, course_id,
                 scanned>>

\* CoursePage._toggle_section -> DB.set_section_collapsed
ToggleSection(s) ==
  /\ course_id # NULL
  /\ s \in section_containers
  /\ LET new_state == toggled(section_view_collapsed, section_persisted_collapsed, s)
     IN /\ section_view_collapsed' = dict_set(section_view_collapsed, {s}, new_state)
        /\ section_persisted_collapsed' =
             dict_set(section_persisted_collapsed, {s}, new_state)
        /\ section_state' = set_section_collapsed(section_state, course_id, s, new_state)
  /\ last' = "toggled"
  /\ UNCHANGED <<courses, items, progress, seq, fs, sorting, now, course_id, ordered_item_ids,
                 hide_completed, scanned>>

\* CoursePage._collapse_all_sections_temporary
CollapseAll ==
  /\ course_id # NULL
  /\ LET r == collapse_all(section_view_collapsed, section_persisted_collapsed,
                           section_containers)
     IN /\ section_view_collapsed' = r.view
        /\ section_persisted_collapsed' = r.persisted
  /\ last' = "collapsed_all"
  /\ UNCHANGED <<courses, items, progress, section_state, seq, fs, sorting, now, course_id,
                 ordered_item_ids, hide_completed, scanned>>

\* CoursePage._expand_all_sections_reset_memory -> DB.clear_section_state
ExpandAll ==
  /\ course_id # NULL
  /\ section_state' = clear_section_state(section_state, course_id)
  /\ section_persisted_collapsed' =
       dict_set(section_persisted_collapsed, section_containers, FALSE)
  /\ section_view_collapsed' = dict_set(section_view_collapsed, section_containers, FALSE)
  /\ last' = "expanded_all"
  /\ UNCHANGED <<courses, items, progress, seq, fs, sorting, now, course_id, ordered_item_ids,
                 hide_completed, scanned>>

\* CoursePage._open_next_from(x) on the page pg of course c: set_completed,
\* _rebuild_ui when hide-completed is on, the index lookup, _open_item.
OpenNextFrom(c, x, pg) ==
  /\ \E ts \in Clock :
       LET pr == set_completed(progress, x, TRUE, ts)
           pg2 == IF hide_completed
                    THEN rebuild_ui(items, pr, c, TRUE, pg.view, pg.persisted)
                    ELSE pg
           n == next_id(pg2.ordered_item_ids, x)
       IN /\ SetPage(pg2)
          /\ IF n = NULL
               THEN /\ now' = ts
                    /\ progress' = pr
                    /\ courses' = courses
                    /\ last' = IF x \notin Range(pg.ordered_item_ids)
                                 THEN "next_not_listed"
                               ELSE IF x \notin Range(pg2.ordered_item_ids)
                                 THEN "next_filtered_out"
                               ELSE "next_at_end"
               ELSE /\ n \in DOMAIN pr => pr[n].open_count < MaxOpen
                    /\ \E ts2 \in ClockAfter(ts) :
                         LET r == record_open(courses, pr, c, n, ts2, 2)
                         IN /\ now' = ts2
                            /\ courses' = r.courses
                            /\ progress' = r.progress
                    /\ last' = "next_opened"
  /\ UNCHANGED <<items, section_state, seq, fs, sorting, hide_completed, scanned>>

\* The Open Next button of a row
OpenNext(x) ==
  /\ course_id # NULL
  /\ x \in Shown
  /\ course_id' = course_id
  /\ OpenNextFrom(course_id, x, CurrentPage)

\* App.open_next_from_last_global: open_course(last.course_id), then
\* _open_next_from(last.item_id)
OpenNextFromLastGlobal ==
  IF get_global_last_opened = {}
    THEN \* messagebox.showinfo("No history", ...)
         /\ last' = "none"
         /\ UNCHANGED <<courses, items, progress, section_state, seq, fs, sorting, now,
                        course_id, page, hide_completed, scanned>>
    ELSE \E r \in get_global_last_opened :
           /\ course_id' = r.course_id
           /\ OpenNextFrom(r.course_id, r.item_id,
                           load_course(section_state, items, progress, r.course_id,
                                       hide_completed))

\* ----------------------------------------------------------- library page
\* LibraryPage._remove_course -> DB.delete_course
DeleteCourse(c) ==
  /\ course_id = NULL
  /\ c \in DOMAIN courses
  /\ courses' = Restrict(courses, DOMAIN courses \ {c})
  /\ items' = cascade_items(items, courses')
  /\ progress' = cascade_progress(progress, items')
  /\ section_state' = cascade_sections(section_state, courses')
  /\ scanned' = scanned \ {courses[c].path}
  /\ last' = "deleted"
  /\ UNCHANGED <<seq, fs, sorting, now, course_id, page, hide_completed>>

\* ------------------------------------------------------------ environment
FsChange(p, d) ==
  /\ d # fs[p]
  /\ fs' = [fs EXCEPT ![p] = d]
  /\ FsDiffSum(fs', DOMAIN fs) <= MaxFsDiff
  /\ scanned' = scanned \ {p}
  /\ last' = "none"
  /\ UNCHANGED <<courses, items, progress, section_state, seq, now, course_id, page,
                 hide_completed, sorting>>

\* A file of the tree is deleted from, or put back on, the disk.
FsRemoveFile(p, f) ==
  /\ isdir(p) /\ f \in fs[p].files
  /\ FsChange(p, [fs[p] EXCEPT !.files = @ \ {f}])

FsAddFile(p, f) ==
  /\ isdir(p) /\ f \in Tree(p) \ fs[p].files
  /\ FsChange(p, [fs[p] EXCEPT !.files = @ \cup {f}])

\* The course folder is removed, or restored with its files.
FsRemoveDir(p) ==
  /\ isdir(p)
  /\ FsChange(p, [IntactDir(p) EXCEPT !.kind = "none", !.files = {}])

FsRestoreDir(p) ==
  /\ ~isdir(p)
  /\ FsChange(p, IntactDir(p))

\* The course folder loses or regains read permission.
FsSetListable(p, b) ==
  /\ isdir(p)
  /\ FsChange(p, [fs[p] EXCEPT !.listable = b])

\* The nested folder S1/sub loses or regains read permission.
FsSetLocked(p, b) ==
  /\ isdir(p)
  /\ Tree(p) \cap InSub # {}
  /\ FsChange(p, [fs[p] EXCEPT !.locked = b])

\* The calls of os.stat on the file f raise from the start of a scan (its
\* folder has lost search permission), raise after isfile has returned (the
\* file becomes unreadable while it is scanned), or work again.
FsSetStat(p, f, mode) ==
  /\ isdir(p) /\ f \in fs[p].files
  /\ FsChange(p, [fs[p] EXCEPT
                    !.unstat = IF mode = "raises" THEN @ \cup {f} ELSE @ \ {f},
                    !.unstat_late = IF mode = "raises_late" THEN @ \cup {f} ELSE @ \ {f}])

\* ------------------------------------------------------------ natural_key
\* The characters of the names that are sorted: letters of both cases,
\* decimal digits and a digit character that is not decimal.
Alphabet == {"a", "B", "0", "1", "2", "^"}

\* The names of at most n characters.
RECURSIVE NamesUpTo(_)
NamesUpTo(n) ==
  IF n = 0 THEN {""}
  ELSE NamesUpTo(n - 1) \cup {s \o c : s \in NamesUpTo(n - 1), c \in Alphabet}

InitNatural ==
  /\ InitCatalog
  /\ names \in [1..NameCount -> NamesUpTo(MaxNameLen)]
  /\ sorted_names = NotSorted

\* sorted(names, key=natural_key), as scan_course and _rebuild_ui call it
SortNames ==
  /\ sorted_names' = sorted_by_natural_key(names)
  /\ last' = "sorted"
  /\ UNCHANGED <<courses, items, progress, section_state, seq, fs, now, course_id, page,
                 hide_completed, scanned, names>>

\* The handlers of the store and the scanner with their failures, and the
\* changes of the disk.
Next ==
  \/ \E p \in Paths : AddCourseFolder(p)
  \/ Rescan
  \/ \E p \in Paths, k \in 1..4 : AddCourseFolderError(p, k)
  \/ \E c \in DOMAIN courses : OpenCourse(c)
  \/ ShowLibrary
  \/ \E i \in DOMAIN items, b \in BOOLEAN : SetCompleted(i, b)
  \/ \E i \in DOMAIN items : OpenItem(i)
  \/ \E i \in DOMAIN items : OpenItemInterrupted(i)
  \/ \E c \in DOMAIN courses : DeleteCourse(c)
  \/ \E p \in Paths, f \in DOMAIN FileInfo : FsRemoveFile(p, f)
  \/ \E p \in Paths, f \in DOMAIN FileInfo : FsAddFile(p, f)
  \/ \E p \in Paths : FsRemoveDir(p)
  \/ \E p \in Paths : FsRestoreDir(p)
  \/ \E p \in Paths, b \in BOOLEAN : FsSetListable(p, b)
  \/ \E p \in Paths, b \in BOOLEAN : FsSetLocked(p, b)

Spec == Init /\ [][Next]_vars

\* The handlers that run to their end, those of the section headers among
\* them, over course folders that are removed and restored.
NextSections ==
  \/ \E p \in Paths : AddCourseFolder(p)
  \/ Rescan
  \/ \E c \in DOMAIN courses : OpenCourse(c)
  \/ ShowLibrary
  \/ \E i \in DOMAIN items, b \in BOOLEAN : SetCompleted(i, b)
  \/ \E i \in DOMAIN items : OpenItem(i)
  \/ \E s \in Sections : ToggleSection(s)
  \/ ExpandAll
  \/ \E c \in DOMAIN courses : DeleteCourse(c)
  \/ \E p \in Paths : FsRemoveDir(p)
  \/ \E p \in Paths : FsRestoreDir(p)

SpecSections == Init /\ [][NextSections]_vars

\* The section controller of the course page on the course folder p3: the
\* section headers, collapse all, expand all and the hide-completed filter.
NextController ==
  \/ \E p \in PagePaths : AddCourseFolder(p)
  \/ Rescan
  \/ \E c \in DOMAIN courses : OpenCourse(c)
  \/ ShowLibrary
  \/ \E i \in DOMAIN items, b \in BOOLEAN : SetCompleted(i, b)
  \/ ToggleHideCompleted
  \/ \E s \in Sections : ToggleSection(s)
  \/ CollapseAll
  \/ ExpandAll

SpecController == Init /\ [][NextController]_vars

\* The navigator of the course page on the course folder p3: the Open and
\* Open Next buttons, the global Open Next and the hide-completed filter.
NextNavigator ==
  \/ \E p \in PagePaths : AddCourseFolder(p)
  \/ Rescan
  \/ \E c \in DOMAIN courses : OpenCourse(c)
  \/ ShowLibrary
  \/ \E i \in DOMAIN items, b \in BOOLEAN : SetCompleted(i, b)
  \/ \E i \in DOMAIN items : OpenItem(i)
  \/ \E i \in DOMAIN items : OpenItemLaunchFails(i)
  \/ ToggleHideCompleted
  \/ \E x \in DOMAIN items : OpenNext(x)
  \/ OpenNextFromLastGlobal

SpecNavigator == Init /\ [][NextNavigator]_vars

\* The scanner on the course folder p4, which has files that the ignore
\* policy rejects, over a disk whose files come, go and refuse os.stat.
NextScanner ==
  \/ \E p \in PolicyPaths : AddCourseFolder(p)
  \/ Rescan
  \/ \E c \in DOMAIN courses : OpenCourse(c)
  \/ ShowLibrary
  \/ \E i \in DOMAIN items, b \in BOOLEAN : SetCompleted(i, b)
  \/ \E p \in PolicyPaths, f \in DOMAIN FileInfo : FsRemoveFile(p, f)
  \/ \E p \in PolicyPaths, f \in DOMAIN FileInfo : FsAddFile(p, f)
  \/ \E p \in PolicyPaths, b \in BOOLEAN : FsSetLocked(p, b)
  \/ \E p \in PolicyPaths, f \in DOMAIN FileInfo, mode \in {"raises", "raises_late", "works"} :
       FsSetStat(p, f, mode)

SpecScanner == Init /\ [][NextScanner]_vars

\* Lists of names sorted by natural_key.
NextNatural == SortNames

SpecNatural == InitNatural /\ [][NextNatural]_vars

\* ----------------------------------------------------------------- claims
ScanOutcomes == {"scan_ok", "scan_ok_again"}

\* A call of Scanner.scan_course(p), whatever its end.
ScanCall(p) ==
  \/ ScanCourse(p)
  \/ \E k \in 1..4 : ScanCourseError(p, k)

\* C1: a scan of a path that completes, when the previous completed scan of
\* that path is still up to date (no change of its directory, the course
\* not removed), changes no row of courses, items and progress: ids,
\* attributes and progress values stay as they were.
C1_ScanIdempotent == [][last' = "scan_ok_again" => Rows' = Rows]_vars

\* The second scan has run over a course with an item that was completed
\* and opened in between.
C1_Witness ==
  /\ last = "scan_ok_again"
  /\ \E i \in Shown : i \in DOMAIN progress /\ progress[i].completed = 1
                      /\ progress[i].open_count > 0

\* C2: after a scan that completes, every item of the course whose file is
\* no longer on disk is gone together with its progress row, and every item
\* whose file is still on disk keeps its id and its progress row unchanged.
C2_Reconciles ==
  [][last' \in ScanOutcomes =>
       \A i \in DOMAIN items :
         items[i].course_id = course_id' =>
           IF items[i].rel_path \in fs[courses[items[i].course_id].path].files
             THEN /\ i \in DOMAIN items'
                  /\ i \in DOMAIN progress => /\ i \in DOMAIN progress'
                                              /\ progress'[i] = progress[i]
             ELSE i \notin DOMAIN items' /\ i \notin DOMAIN progress']_vars

\* C3: a scan during which a directory below the course root cannot be
\* listed deletes no item of that course.
C3_NoDeleteAfterPartialWalk ==
  [][\A p \in Paths :
       (fs[p].kind = "dir" /\ fs[p].locked /\ ScanCall(p)) =>
          \A i \in DOMAIN items :
            courses[items[i].course_id].path = p => i \in DOMAIN items']_vars

\* C4: a scan that fails after it began to write leaves the items and the
\* progress rows as they were before the call.
C4_FailedScanLeavesItems ==
  [][last' = "scan_error" => items' = items /\ progress' = progress]_vars

\* C5: a scan that fails because the course folder cannot be listed creates
\* no course row and changes no row.
C5_ListErrorLeavesCatalog ==
  [][last' = "list_error" => Rows' = Rows /\ section_state' = section_state]_vars

\* C6: a scan of a path that is not a directory creates no course row and
\* changes no row of courses, items, progress and section_state.
C6_NotAFolderChangesNothing ==
  [][\A p \in Paths :
       (fs[p].kind # "dir" /\ ScanCall(p)) =>
          UNCHANGED <<courses, items, progress, section_state>>]_vars

\* The scan was refused for the vanished folder of a course that has items,
\* progress and a remembered section.
C6_Witness ==
  /\ last = "not_a_folder"
  /\ \E c \in DOMAIN courses :
       /\ fs[courses[c].path].kind # "dir"
       /\ \E i \in DOMAIN progress : items[i].course_id = c
       /\ \E k \in DOMAIN section_state : k[1] = c

\* C7: between handlers every item has a progress row, every progress row
\* an item, every item a course, and no two items of a course share a
\* rel_path.
C7_CatalogIntegrity ==
  /\ DOMAIN items = DOMAIN progress
  /\ \A i \in DOMAIN items : items[i].course_id \in DOMAIN courses
  /\ \A i, j \in DOMAIN items :
       (items[i].course_id = items[j].course_id /\ items[i].rel_path = items[j].rel_path)
         => i = j

\* C8: the item written by upsert_item and its progress row are committed
\* together: an upsert_item that is cut short leaves both or neither, so a
\* scan adds no item without adding its progress row.
C8_UpsertItemAtomic ==
  [][\A p \in Paths : ScanCall(p) =>
       \A i \in DOMAIN items' \ DOMAIN items : i \in DOMAIN progress']_vars

\* C9: record_open(c, i) on an item i adds 1 to open_count of i, writes one
\* timestamp to last_opened_at of i and of c, and makes i the
\* last_opened_item_id of c; cut short, it changes neither row.
C9_RecordOpen ==
  [][/\ last' = "opened" =>
          \E i \in Shown :
            /\ i \in DOMAIN progress /\ i \in DOMAIN progress'
            /\ progress'[i].open_count = progress[i].open_count + 1
            /\ progress'[i].last_opened_at = now'
            /\ courses'[course_id].last_opened_at = now'
            /\ courses'[course_id].last_opened_item_id = i
     /\ last' = "open_interrupted" => courses' = courses /\ progress' = progress]_vars

\* C10: when every item has its progress row and get_global_last_opened has
\* one possible result (Y, X), X is the last_opened_item_id of Y.
C10_GlobalMatchesCoursePointer ==
  (DOMAIN items = DOMAIN progress /\ Cardinality(get_global_last_opened) = 1) =>
     \A r \in get_global_last_opened :
       courses[r.course_id].last_opened_item_id = r.item_id

\* C11: after record_open(Y, X) on an item X (every item having its
\* progress row) get_global_last_opened has the one result (Y, X), whatever
\* was opened before and with whatever timestamp; and it returns none
\* exactly when no non-ignored item has a last_opened_at.
C11_GlobalReturnsLastOpen ==
  [][(last' = "opened" /\ DOMAIN items = DOMAIN progress) =>
       /\ get_global_last_opened' =
            {[course_id |-> course_id,
              item_id |-> courses'[course_id].last_opened_item_id]}
       /\ (get_global_last_opened' = {}) <=>
            ~ \E i \in DOMAIN progress' :
                items'[i].ignored = 0 /\ progress'[i].last_opened_at # NULL]_vars

\* C12: in every state every progress row has completed_at non-null exactly
\* when completed = 1; a set_completed(i, false) leaves completed_at null
\* and a set_completed(i, true) leaves it set.
C12_CompletedAtIffCompleted ==
  [][/\ \A i \in DOMAIN progress' :
          (progress'[i].completed_at # NULL) <=> (progress'[i].completed = 1)
     /\ \A i \in DOMAIN progress \cap DOMAIN progress' :
          progress'[i].completed # progress[i].completed =>
            IF progress'[i].completed = 0
              THEN progress'[i].completed_at = NULL
              ELSE progress'[i].completed_at # NULL]_vars

\* An item was completed and uncompleted again while another one is
\* completed.
C12_Witness ==
  /\ last = "uncompleted"
  /\ \E i, j \in DOMAIN progress :
       /\ progress[i].completed = 0 /\ progress[i].completed_at = NULL
       /\ progress[j].completed = 1 /\ progress[j].completed_at # NULL

\* C13: set_completed(i, true) on an item that is already completed leaves
\* completed_at at the value of the original completion.
C13_CompletedAtKept ==
  [][\A i \in DOMAIN progress \cap DOMAIN progress' :
       (progress[i].completed = 1 /\ progress'[i].completed = 1) =>
          progress'[i].completed_at = progress[i].completed_at]_vars

\* C14: while an item exists its progress row stays, open_count starts at 0,
\* never decreases and changes only by +1 in a record_open of that item.
C14_OpenCountMonotonic ==
  [][/\ \A i \in DOMAIN progress' \ DOMAIN progress : progress'[i].open_count = 0
     /\ \A i \in DOMAIN progress \cap DOMAIN items' : i \in DOMAIN progress'
     /\ \A i \in DOMAIN progress \cap DOMAIN progress' :
          \/ progress'[i].open_count = progress[i].open_count
          \/ /\ progress'[i].open_count = progress[i].open_count + 1
             /\ OpenItem(i)]_vars

\* A rescan has run over an item that was opened, in a course with a
\* remembered section.
C14_Witness ==
  /\ last \in ScanOutcomes
  /\ \E i \in Range(ordered_item_ids) :
       /\ i \in DOMAIN progress /\ progress[i].open_count = MaxOpen
       /\ <<course_id, items[i].section>> \in DOMAIN section_state

\* C15: after delete_course(c) no item, progress row or section_state row
\* of c remains, and the rows of every other course are unchanged.
C15_DeleteCourseCascade ==
  [][\A c \in DOMAIN courses : DeleteCourse(c) =>
       /\ c \notin DOMAIN courses'
       /\ \A i \in DOMAIN items :
            IF items[i].course_id = c
              THEN i \notin DOMAIN items' /\ i \notin DOMAIN progress'
              ELSE /\ i \in DOMAIN items' /\ items'[i] = items[i]
                   /\ i \in DOMAIN progress =>
                        i \in DOMAIN progress' /\ progress'[i] = progress[i]
       /\ DOMAIN items' \subseteq DOMAIN items
       /\ DOMAIN progress' \subseteq DOMAIN progress
       /\ \A k \in DOMAIN section_state :
            IF k[1] = c
              THEN k \notin DOMAIN section_state'
              ELSE k \in DOMAIN section_state' /\ section_state'[k] = section_state[k]
       /\ DOMAIN section_state' \subseteq DOMAIN section_state
       /\ \A d \in DOMAIN courses \ {c} : d \in DOMAIN courses' /\ courses'[d] = courses[d]
       /\ DOMAIN courses' \subseteq DOMAIN courses]_vars

\* A course was removed while another course keeps items, progress and a
\* remembered section.
C15_Witness ==
  /\ last = "deleted"
  /\ \E d \in DOMAIN courses :
       /\ \E i \in DOMAIN progress : items[i].course_id = d /\ progress[i].completed = 1
       /\ \E k \in DOMAIN section_state : k[1] = d
  /\ Cardinality(DOMAIN items) < seq.items

C17_ExpandAllResets ==
  [][ExpandAll =>
       /\ \A i \in DOMAIN items :
            items[i].course_id = course_id =>
              /\ ~dict_get(section_view_collapsed', items[i].section, FALSE)
              /\ ~dict_get(section_persisted_collapsed', items[i].section, FALSE)
       /\ \A k \in DOMAIN section_state' : k[1] # course_id]_vars

\* C18: a toggle of section s leaves view[s], persisted[s] and the store's
\* flag of (course, s) at the negation of view[s] before it, and leaves the
\* view, persisted and store values of every other section.
C18_ToggleDurable ==
  [][\A s \in Sections : ToggleSection(s) =>
       LET new == ~dict_get(section_view_collapsed, s, FALSE)
       IN /\ section_view_collapsed'[s] = new
          /\ section_persisted_collapsed'[s] = new
          /\ section_state'[<<course_id, s>>] = new
          /\ DOMAIN section_view_collapsed' = DOMAIN section_view_collapsed \cup {s}
          /\ DOMAIN section_persisted_collapsed'
               = DOMAIN section_persisted_collapsed \cup {s}
          /\ DOMAIN section_state' = DOMAIN section_state \cup {<<course_id, s>>}
          /\ \A t \in DOMAIN section_view_collapsed \ {s} :
               section_view_collapsed'[t] = section_view_collapsed[t]
          /\ \A t \in DOMAIN section_persisted_collapsed \ {s} :
               section_persisted_collapsed'[t] = section_persisted_collapsed[t]
          /\ \A k \in DOMAIN section_state \ {<<course_id, s>>} :
               section_state'[k] = section_state[k]]_vars

\* A section collapsed by collapse all was toggled: it is expanded on
\* screen, in the persisted map and in the store, and the other section is
\* still collapsed on screen only.
C18_Witness ==
  /\ last = "toggled"
  /\ \E s, t \in section_containers :
       /\ ~section_view_collapsed[s] /\ ~section_persisted_collapsed[s]
       /\ <<course_id, s>> \in DOMAIN section_state
       /\ ~section_state[<<course_id, s>>]
       /\ section_view_collapsed[t] /\ ~section_persisted_collapsed[t]
       /\ <<course_id, t>> \notin DOMAIN section_state

\* C19: Open Next on the row of x, x at index k of the list as it stands,
\* marks x completed and, when k is not the last index, opens the element
\* at k + 1 and no other item; when k is the last index it opens nothing.
C19_OpenNextOpensSuccessor ==
  [][\A x \in DOMAIN items : OpenNext(x) =>
       LET ord == ordered_item_ids
           k == CHOOSE j \in DOMAIN ord : ord[j] = x
           opened == {i \in DOMAIN progress :
                        progress'[i].open_count # progress[i].open_count}
       IN /\ is_completed(progress', x)
          /\ IF k < Len(ord)
               THEN /\ opened = {ord[k + 1]}
                    /\ progress'[ord[k + 1]].open_count
                         = progress[ord[k + 1]].open_count + 1
                    /\ courses'[course_id].last_opened_item_id = ord[k + 1]
               ELSE opened = {} /\ courses' = courses]_vars

\* C20: the global Open Next for an item x that is not in the list of its
\* course changes nothing but the completion mark of x: no open_count, no
\* last_opened_at, no other progress row and no course row changes.
C20_OpenNextNotListed ==
  [][\A r \in get_global_last_opened :
       LET pg == load_course(section_state, items, progress, r.course_id,
                             hide_completed)
           x == r.item_id
       IN (/\ x \notin Range(pg.ordered_item_ids)
           /\ course_id' = r.course_id
           /\ OpenNextFrom(r.course_id, x, pg)) =>
            /\ courses' = courses
            /\ DOMAIN progress' = DOMAIN progress
            /\ \A i \in DOMAIN progress \ {x} : progress'[i] = progress[i]
            /\ progress'[x].open_count = progress[x].open_count
            /\ progress'[x].last_opened_at = progress[x].last_opened_at
            /\ progress'[x].completed = 1]_vars

\* The global Open Next has run for an item that the hide-completed filter
\* keeps out of a list that has rows.
C20_Witness ==
  /\ last = "next_not_listed"
  /\ ordered_item_ids # <<>>
  /\ hide_completed

\* The sum of size_bytes over the items S.
RECURSIVE TotalBytes(_)
TotalBytes(S) ==
  IF S = {} THEN 0
  ELSE LET i == CHOOSE x \in S : TRUE IN items[i].size_bytes + TotalBytes(S \ {i})

\* C22: get_progress_for_course(c) is (completedCount, totalCount,
\* completedBytes, totalBytes) over the non-ignored items of c alone, an item
\* without a progress row counting as not completed; completedCount <=
\* totalCount and completedBytes <= totalBytes.
C22_ProgressForCourse ==
  \A c \in DOMAIN courses :
    LET r == get_progress_for_course(items, progress, c)
        mine == {i \in DOMAIN items : items[i].course_id = c /\ items[i].ignored = 0}
        done == {i \in mine : i \in DOMAIN progress /\ progress[i].completed = 1}
    IN /\ r = <<Cardinality(done), Cardinality(mine), TotalBytes(done), TotalBytes(mine)>>
       /\ r[1] <= r[2]
       /\ r[3] <= r[4]

\* A course has a completed item and an item without a progress row while
\* another course has a completed item.
C22_Witness ==
  \E c, d \in DOMAIN courses :
    /\ c # d
    /\ \E i, j \in DOMAIN items :
         /\ items[i].course_id = c /\ is_completed(progress, i)
         /\ items[j].course_id = c /\ j \notin DOMAIN progress
    /\ \E k \in DOMAIN items : items[k].course_id = d /\ is_completed(progress, k)

\* C23: list_courses returns every course exactly once, by the larger of
\* last_opened_at and created_at descending, then by name ascending.
C23_ListCoursesOrder ==
  /\ list_courses(courses) # {}
  /\ \A q \in list_courses(courses) :
       /\ Len(q) = Cardinality(DOMAIN courses)
       /\ Range(q) = DOMAIN courses
       /\ \A j, k \in DOMAIN q :
            j < k =>
              LET a == courses[q[j]]
                  b == courses[q[k]]
                  ma == IF a.last_opened_at > a.created_at THEN a.last_opened_at
                        ELSE a.created_at
                  mb == IF b.last_opened_at > b.created_at THEN b.last_opened_at
                        ELSE b.created_at
              IN ma > mb \/ (ma = mb /\ (a.name = b.name \/ str_lt(a.name, b.name)))

\* A course opened after its creation is listed before a course that was
\* created no later, was never opened and has the smaller name.
C23_Witness ==
  \E c, d \in DOMAIN courses :
    /\ courses[d].last_opened_at = NULL
    /\ courses[c].last_opened_at > courses[d].created_at
    /\ courses[c].created_at <= courses[d].created_at
    /\ str_lt(courses[d].name, courses[c].name)

\* C25: an open of an item whose launch fails records the open as an open
\* whose launch succeeds does: the catalog after it is the catalog that
\* record_open leaves, and no handler is aborted by the failure.
C25_OpenRecordedWhateverLaunch ==
  [][\A i \in DOMAIN items : OpenItemLaunchFails(i) =>
       /\ \E ts \in Clock :
            LET r == record_open(courses, progress, course_id, i, ts, 2)
            IN courses' = r.courses /\ progress' = r.progress /\ now' = ts
       /\ progress'[i].open_count = progress[i].open_count + 1
       /\ courses'[course_id].last_opened_item_id = i
       /\ UNCHANGED <<items, section_state, seq>>]_vars

\* An open whose launch failed is recorded on the item and on its course.
C25_Witness ==
  /\ last = "opened_launch_failed"
  /\ \E i \in Shown :
       /\ progress[i].open_count = 1
       /\ progress[i].last_opened_at = now
       /\ courses[course_id].last_opened_item_id = i

\* C27: a scan of a path that is in the catalog adds no course row and
\* leaves the id, created_at, last_opened_item_id and last_opened_at of the
\* course (its name alone may be rewritten), the rows of the other courses
\* and every section_state row as they were.
C27_RescanKeepsCourseRow ==
  [][\A p \in Paths :
       ((\E c \in DOMAIN courses : courses[c].path = p) /\ ScanCall(p)) =>
          /\ DOMAIN courses' = DOMAIN courses
          /\ \A c \in DOMAIN courses :
               /\ courses'[c].path = courses[c].path
               /\ courses'[c].created_at = courses[c].created_at
               /\ courses'[c].last_opened_item_id = courses[c].last_opened_item_id
               /\ courses'[c].last_opened_at = courses[c].last_opened_at
               /\ courses[c].path # p => courses'[c] = courses[c]
          /\ section_state' = section_state]_vars

\* A course that was created before, has a last opened item and a
\* remembered section has been scanned again.
C27_Witness ==
  /\ last = "scan_ok_again"
  /\ course_id # NULL
  /\ courses[course_id].created_at < now
  /\ courses[course_id].last_opened_item_id # NULL
  /\ \E k \in DOMAIN section_state : k[1] = course_id

\* C28: in every state the last_opened_item_id of a course is null or the
\* id of an existing item of that course.
C28_PointerResolves ==
  \A c \in DOMAIN courses :
    \/ courses[c].last_opened_item_id = NULL
    \/ /\ courses[c].last_opened_item_id \in DOMAIN items
       /\ items[courses[c].last_opened_item_id].course_id = c

\* C29: while a course page is shown, for every section s that has an entry
\* in the persisted map, persisted[s] is the collapsed flag of (course, s) in
\* the store, false where the store has no row.
C29_PersistedAgreesWithStore ==
  course_id # NULL =>
    \A s \in DOMAIN section_persisted_collapsed :
      section_persisted_collapsed[s] = dict_get(section_state, <<course_id, s>>, FALSE)

KeyLe(k1, k2) == compare_keys(k1, k2) \in {"lt", "eq"}

\* C26: natural_key orders names by their digit runs taken as numbers and
\* their texts taken without case ("Lecture 1" < "Lecture 2" < "Lecture
\* 10"), and the comparison of keys is a total preorder defined for every
\* pair of names: no call of natural_key and no comparison of two keys
\* raises, and a sort by natural_key returns its list in that order.
C26_NaturalOrderTotal ==
  /\ compare_keys(natural_key("Lecture 1").key, natural_key("Lecture 2").key) = "lt"
  /\ compare_keys(natural_key("Lecture 2").key, natural_key("Lecture 10").key) = "lt"
  /\ compare_keys(natural_key("lecture 2").key, natural_key("LECTURE 2").key) = "eq"
  /\ \A j, k, l \in DOMAIN names :
       LET a == natural_key(names[j])
           b == natural_key(names[k])
           c == natural_key(names[l])
       IN /\ a.raised = ""
          /\ compare_keys(a.key, b.key) # "TypeError"
          /\ KeyLe(a.key, b.key) \/ KeyLe(b.key, a.key)
          /\ (KeyLe(a.key, b.key) /\ KeyLe(b.key, c.key)) => KeyLe(a.key, c.key)
  /\ last = "sorted" =>
       /\ sorted_names.raised = ""
       /\ Len(sorted_names.list) = Len(names)
       /\ \A x \in Range(names) :
            Cardinality({j \in DOMAIN names : names[j] = x})
              = Cardinality({j \in DOMAIN sorted_names.list : sorted_names.list[j] = x})
       /\ \A j, k \in DOMAIN sorted_names.list :
            j < k => KeyLe(natural_key(sorted_names.list[j]).key,
                           natural_key(sorted_names.list[k]).key)

\* C21: after a scan of a course that completes, the items of the course
\* are exactly the regular files on disk that lie below a top-level folder,
\* have no folder rejected by the ignore policy on their path and have an
\* extension that the policy does not reject; the section of each item is
\* its top-level folder, and no file directly in the course root is an item.
C21_ItemsAreThePolicyFiles ==
  [][\A p \in DOMAIN fs :
       (ScanCourse(p) /\ last' \in ScanOutcomes) =>
          LET c == get_course_id(courses', p)
              mine == {i \in DOMAIN items' : items'[i].course_id = c}
          IN /\ {items'[i].rel_path : i \in mine}
                  = {f \in fs[p].files :
                       LET n == Components[f] IN
                       /\ FileInfo[f].regular
                       /\ Len(n) > 1
                       /\ \A j \in 1..(Len(n) - 1) : ~folder_is_ignored(n[j])
                       /\ lower(splitext_ext(n[Len(n)])) \notin IGNORED_EXTENSIONS}
             /\ \A i \in mine : items'[i].section = Components[items'[i].rel_path][1]]_vars

\* C24: a file whose size or mtime cannot be read during a scan that
\* completes is an item after it, with 0 in place of the value that could
\* not be read; the item it had before keeps its id and its progress row.
C24_UnreadableFileCataloged ==
  [][\A p \in DOMAIN fs :
       (ScanCourse(p) /\ last' \in ScanOutcomes) =>
          \A f \in (fs[p].unstat \cup fs[p].unstat_late) \cap fs[p].files :
            (f \in PolicyKeeps /\ FileInfo[f].regular /\ ~(f \in InSub /\ fs[p].locked)) =>
               LET c == get_course_id(courses', p) IN
               /\ \E i \in DOMAIN items' :
                    /\ items'[i].course_id = c /\ items'[i].rel_path = f
                    /\ items'[i].size_bytes = 0 /\ items'[i].mtime = 0
               /\ \A i \in DOMAIN items :
                    (items[i].course_id = c /\ items[i].rel_path = f) =>
                       /\ i \in DOMAIN items'
                       /\ i \in DOMAIN progress =>
                            i \in DOMAIN progress' /\ progress'[i] = progress[i]]_vars

\* C31: with no filter active and a global last-opened item x, an
\* invocation of the global Open Next marks x completed and, when x is not
\* the last item of the list of its course, makes the successor of x the
\* global last-opened item; when x is the last item it opens nothing.
C31_GlobalResumeAdvances ==
  [][(~hide_completed /\ get_global_last_opened # {} /\ OpenNextFromLastGlobal) =>
       \E r \in get_global_last_opened :
         LET ord == load_course(section_state, items, progress, r.course_id,
                                FALSE).ordered_item_ids
             x == r.item_id
         IN /\ course_id' = r.course_id
            /\ is_completed(progress', x)
            /\ x \in Range(ord)
            /\ LET k == CHOOSE j \in DOMAIN ord : ord[j] = x
               IN IF k < Len(ord)
                    THEN get_global_last_opened'
                           = {[course_id |-> r.course_id, item_id |-> ord[k + 1]]}
                    ELSE /\ courses' = courses
                         /\ \A i \in DOMAIN progress :
                              /\ progress'[i].open_count = progress[i].open_count
                              /\ progress'[i].last_opened_at = progress[i].last_opened_at]_vars

====
